---- MODULE Spec2Model ----
(***************************************************************************)
(* Model of src/map.js: the minute-bucketed, time-windowed aggregation of   *)
(* bike trips per station, together with the promise chain that loads the   *)
(* two datasets and the slider handler that re-runs the aggregation.        *)
(*                                                                          *)
(* JavaScript arrays are modelled as sequences: the array element of index  *)
(* i is the sequence element of index i + 1.                                *)
(***************************************************************************)
EXTENDS Integers, Sequences, FiniteSets, TLC

VARIABLES
    pc,                  \* position in the promise chain of map.on('load')
    stations,            \* global `stations`
    trips,               \* the array handed to the trips .then() handler
    departuresByMinute,  \* global bucket table of departures
    arrivalsByMinute,    \* global bucket table of arrivals
    allTripsStations,    \* const of the trips handler (unfiltered traffic)
    filteredStations,    \* data last bound to the circles by updateScatterPlot
    radiusRange,         \* radiusScale.range()
    sliderValue,         \* Number(timeSlider.value)
    selectedTime,        \* selectedTime.textContent
    anyTimeLabel,        \* anyTimeLabel.style.display
    listenerRegistered,  \* timeSlider has the 'input' listener
    consoleError,        \* what the catch handler reported
    computed,            \* history: computeStationTraffic has been executed
    ref                  \* history: first slider-driven call and what followed

vars == <<pc, stations, trips, departuresByMinute, arrivalsByMinute,
          allTripsStations, filteredStations, radiusRange, sliderValue,
          selectedTime, anyTimeLabel, listenerRegistered, consoleError,
          computed, ref>>

-----------------------------------------------------------------------------
(* Program constants *)

MinutesPerDay == 1440

WindowRadius == 60

NoFilter == -1

\* getHours() / getMinutes() of an Invalid Date; it is no array index
NaN == -1000000

-----------------------------------------------------------------------------
(* Bounds and input data *)

MaxTrips == 2

stationA == [short_name |-> "A", lat |-> 1, lon |-> 1]
stationA2 == [short_name |-> "A", lat |-> 2, lon |-> 2]
stationB == [short_name |-> "B", lat |-> 3, lon |-> 3]
stationC == [short_name |-> "C", lat |-> 4, lon |-> 4]

ScenarioStations == <<stationA, stationB, stationC>>

\* station lists the stations request can deliver
StationLists ==
    { <<>>, <<stationA>>, ScenarioStations, <<stationA, stationA2>> }

\* CSV rows: a timestamp text is <<hours, minutes>>, or <<>> when it does not parse
RowScenario   == [start_station_id |-> "A", end_station_id |-> "B",
                  started_at |-> <<11, 40>>, ended_at |-> <<11, 45>>]
RowEarly      == [start_station_id |-> "B", end_station_id |-> "C",
                  started_at |-> <<0, 10>>, ended_at |-> <<0, 59>>]
RowMidnight   == [start_station_id |-> "A", end_station_id |-> "Z",
                  started_at |-> <<23, 59>>, ended_at |-> <<0, 0>>]
RowLate       == [start_station_id |-> "C", end_station_id |-> "A",
                  started_at |-> <<22, 59>>, ended_at |-> <<23, 0>>]
RowBadStart   == [start_station_id |-> "B", end_station_id |-> "B",
                  started_at |-> <<>>, ended_at |-> <<8, 30>>]
RowBadEnd     == [start_station_id |-> "A", end_station_id |-> "A",
                  started_at |-> <<8, 0>>, ended_at |-> <<>>]

Rows == {RowScenario, RowEarly, RowMidnight, RowLate, RowBadStart, RowBadEnd}

\* the CSV files the trips request can deliver: at most MaxTrips rows
CsvFiles == UNION { [1..n -> Rows] : n \in 0..MaxTrips }

\* the CSV file of the full-range window specification
WindowCsv == <<RowScenario, RowEarly, RowMidnight, RowLate>>

\* slider positions tried by Spec
SliderValues == {NoFilter, 0, 640, 700, 1439}

\* every slider position
AllSliderValues == {NoFilter} \cup (0 .. MinutesPerDay - 1)

\* the positions one step away from position v
SliderSteps(v) == {v - 1, v + 1} \cap AllSliderValues

-----------------------------------------------------------------------------
(* Helpers of map.js *)

InvalidDate == [valid |-> FALSE, hours |-> NaN, minutes |-> NaN]

\* new Date(text)
newDate(text) ==
    IF Len(text) = 2
    THEN [valid |-> TRUE, hours |-> text[1], minutes |-> text[2]]
    ELSE InvalidDate

\* the row conversion function given to d3.csv; ride is the row's position,
\* standing for the identity of the trip object
rowConversion(row, ride) ==
    [ride |-> ride,
     start_station_id |-> row.start_station_id,
     end_station_id |-> row.end_station_id,
     started_at |-> newDate(row.started_at),
     ended_at |-> newDate(row.ended_at)]

parseCsv(csv) == [i \in 1..Len(csv) |-> rowConversion(csv[i], i)]

minutesSinceMidnight(date) ==
    IF date.hours = NaN \/ date.minutes = NaN
    THEN NaN
    ELSE date.hours * 60 + date.minutes

\* formatTime: h:mm AM/PM of `minutes` after midnight
formatTime(minutes) ==
    LET h == (minutes \div 60) % 24
        m == minutes % 60
    IN  <<IF h % 12 = 0 THEN 12 ELSE h % 12, m, IF h < 12 THEN "AM" ELSE "PM">>

\* Array.from({ length: 1440 }, () => [])
EmptyTable == [i \in 1..MinutesPerDay |-> <<>>]

\* Array.prototype.slice(start, end) on array indices 0..Len-1
slice(arr, start, end) == SubSeq(arr, start + 1, end)

holdsTrips(bucket) == bucket # <<>>

RECURSIVE concatAll(_)
concatAll(arr) ==
    IF Len(arr) = 0 THEN <<>>
    ELSE IF Len(arr) = 1 THEN arr[1]
    ELSE LET h == Len(arr) \div 2
         IN  concatAll(SubSeq(arr, 1, h)) \o concatAll(SubSeq(arr, h + 1, Len(arr)))

\* Array.prototype.flat(): the concatenation of the elements, in order (the
\* empty elements add nothing to it and are passed over first)
flat(arr) == concatAll(SelectSeq(arr, holdsTrips))

-----------------------------------------------------------------------------
(* Window query *)

\* a filterByMinute whose window takes in the minute at maxMinute
filterByMinute_inclusiveMax(tripsByMinute, minute) ==
    IF minute = NoFilter
    THEN flat(tripsByMinute)
    ELSE LET minMinute == (minute - WindowRadius + MinutesPerDay) % MinutesPerDay
             maxMinute == (minute + WindowRadius) % MinutesPerDay
         IN  IF minMinute > maxMinute
             THEN flat(slice(tripsByMinute, minMinute, Len(tripsByMinute))
                       \o slice(tripsByMinute, 0, maxMinute + 1))
             ELSE flat(slice(tripsByMinute, minMinute, maxMinute + 1))

\* a filterByMinute that forgets the part of the window after midnight
filterByMinute_noAfterMidnight(tripsByMinute, minute) ==
    IF minute = NoFilter
    THEN flat(tripsByMinute)
    ELSE LET minMinute == (minute - WindowRadius + MinutesPerDay) % MinutesPerDay
             maxMinute == (minute + WindowRadius) % MinutesPerDay
         IN  IF minMinute > maxMinute
             THEN flat(slice(tripsByMinute, minMinute, Len(tripsByMinute)))
             ELSE flat(slice(tripsByMinute, minMinute, maxMinute))

\* a filterByMinute that does not wrap its bounds: slice(start, end) counts a
\* negative start from the end of the array and cuts end at its length
filterByMinute_noWrap(tripsByMinute, minute) ==
    IF minute = NoFilter
    THEN flat(tripsByMinute)
    ELSE IF minute < WindowRadius
         THEN <<>>
         ELSE IF minute + WindowRadius > Len(tripsByMinute)
              THEN flat(slice(tripsByMinute, minute - WindowRadius, Len(tripsByMinute)))
              ELSE flat(slice(tripsByMinute, minute - WindowRadius, minute + WindowRadius))

\* the value filterByMinute returns
filterByMinute(tripsByMinute, minute) ==
    IF minute = NoFilter
    THEN flat(tripsByMinute)
    ELSE LET minMinute == (minute - WindowRadius + MinutesPerDay) % MinutesPerDay
             maxMinute == (minute + WindowRadius) % MinutesPerDay
         IN  IF minMinute > maxMinute
             THEN LET beforeMidnight == slice(tripsByMinute, minMinute, Len(tripsByMinute))
                      afterMidnight  == slice(tripsByMinute, 0, maxMinute)
                  IN  flat(beforeMidnight \o afterMidnight)
             ELSE flat(slice(tripsByMinute, minMinute, maxMinute))

\* a filterByMinute whose slicing branches take the trips they return out
\* of the table (splice for slice)
tableAfterFilter_splice(tripsByMinute, minute) ==
    IF minute = NoFilter
    THEN tripsByMinute
    ELSE LET taken == filterByMinute(tripsByMinute, minute)
         IN  [i \in 1..Len(tripsByMinute) |->
                 IF \E k \in 1..Len(taken) : \E j \in 1..Len(tripsByMinute[i]) :
                        taken[k] = tripsByMinute[i][j]
                 THEN <<>>
                 ELSE tripsByMinute[i]]

\* the table filterByMinute was given, after the call: slice, concat and flat
\* build new arrays and leave their receiver as it was
tableAfterFilter(tripsByMinute, minute) == tripsByMinute

-----------------------------------------------------------------------------
(* Traffic aggregation *)

\* d3.rollup(values, v => v.length, d => d[key]): the map from each key to
\* the number of values that have it
rollup(values, key) ==
    [k \in {values[i][key] : i \in 1..Len(values)} |->
        Cardinality({i \in 1..Len(values) : values[i][key] = k})]

\* map.get(id) ?? 0
getOrZero(map, id) == IF id \in DOMAIN map THEN map[id] ELSE 0

\* { ...station, departures, arrivals, totalTraffic }
withTraffic(station, depCount, arrCount) ==
    [k \in DOMAIN station \cup {"departures", "arrivals", "totalTraffic"} |->
        CASE k = "departures"   -> depCount
          [] k = "arrivals"     -> arrCount
          [] k = "totalTraffic" -> depCount + arrCount
          [] OTHER              -> station[k]]

hasTraffic(record) == record.totalTraffic > 0

\* a computeStationTraffic that drops the stations without traffic
computeStationTraffic_dropsIdle(stationList, timeFilter, depTable, arrTable) ==
    LET departures == rollup(filterByMinute(depTable, timeFilter), "start_station_id")
        arrivals   == rollup(filterByMinute(arrTable, timeFilter), "end_station_id")
        all == [i \in 1..Len(stationList) |->
                   withTraffic(stationList[i],
                               getOrZero(departures, stationList[i].short_name),
                               getOrZero(arrivals, stationList[i].short_name))]
    IN  SelectSeq(all, hasTraffic)

\* a computeStationTraffic that groups the arrivals by start_station_id
computeStationTraffic_startKey(stationList, timeFilter, depTable, arrTable) ==
    LET departures == rollup(filterByMinute(depTable, timeFilter), "start_station_id")
        arrivals   == rollup(filterByMinute(arrTable, timeFilter), "start_station_id")
    IN  [i \in 1..Len(stationList) |->
            withTraffic(stationList[i],
                        getOrZero(departures, stationList[i].short_name),
                        getOrZero(arrivals, stationList[i].short_name))]

\* computeStationTraffic(stations, timeFilter), reading the two global bucket
\* tables, given here as depTable and arrTable
computeStationTraffic(stationList, timeFilter, depTable, arrTable) ==
    LET departures == rollup(filterByMinute(depTable, timeFilter), "start_station_id")
        arrivals   == rollup(filterByMinute(arrTable, timeFilter), "end_station_id")
    IN  [i \in 1..Len(stationList) |->
            LET station  == stationList[i]
                id       == station.short_name
                depCount == getOrZero(departures, id)
                arrCount == getOrZero(arrivals, id)
            IN  withTraffic(station, depCount, arrCount)]

-----------------------------------------------------------------------------
(* Time bucketer: the trips.forEach of the trips handler *)

\* arr[index] is an array (not undefined)
hasIndex(arr, index) == index \in 0 .. Len(arr) - 1

\* arr[index].push(trip)
push(arr, index, trip) == [arr EXCEPT ![index + 1] = Append(@, trip)]

\* a loop body that files the arrival under the start minute
bucketTrip_startMinute(tables, trip) ==
    LET started == minutesSinceMidnight(trip.started_at)
    IN  IF ~hasIndex(tables.departures, started)
        THEN [tables EXCEPT !.threw = TRUE]
        ELSE [departures |-> push(tables.departures, started, trip),
              arrivals   |-> push(tables.arrivals, started, trip),
              threw      |-> FALSE]

\* one run of the loop body on the tables; threw: the body raised a TypeError
\* (push on undefined), which it does at the first table whose slot is missing
bucketTrip(tables, trip) ==
    LET started == minutesSinceMidnight(trip.started_at)
        ended   == minutesSinceMidnight(trip.ended_at)
    IN  IF ~hasIndex(tables.departures, started)
        THEN [tables EXCEPT !.threw = TRUE]
        ELSE LET dep == push(tables.departures, started, trip)
             IN  IF ~hasIndex(tables.arrivals, ended)
                 THEN [departures |-> dep, arrivals |-> tables.arrivals,
                       threw |-> TRUE]
                 ELSE [departures |-> dep,
                       arrivals   |-> push(tables.arrivals, ended, trip),
                       threw      |-> FALSE]

\* trips.forEach(...) from trip i on; the loop ends at the first throw
RECURSIVE forEachTrip(_, _, _)
forEachTrip(tripList, i, tables) ==
    IF i > Len(tripList) \/ tables.threw
    THEN tables
    ELSE forEachTrip(tripList, i + 1, bucketTrip(tables, tripList[i]))

-----------------------------------------------------------------------------
(* Initial state: the module-level code of map.js has run *)

NoRef == [set |-> FALSE, filter |-> NoFilter, output |-> <<>>,
          between |-> FALSE, again |-> FALSE]

Init ==
    /\ pc = "idle"
    /\ stations = <<>>
    /\ trips = <<>>
    /\ departuresByMinute = EmptyTable
    /\ arrivalsByMinute = EmptyTable
    /\ allTripsStations = <<>>
    /\ filteredStations = <<>>
    /\ radiusRange = <<>>
    /\ sliderValue = NoFilter
    /\ selectedTime = <<>>
    /\ anyTimeLabel = "block"
    /\ listenerRegistered = FALSE
    /\ consoleError = "none"
    /\ computed = FALSE
    /\ ref = NoRef

-----------------------------------------------------------------------------
(* Handlers *)

\* an updateScatterPlot that runs the bucketing loop again before it aggregates
updateScatterPlot_rebuckets(timeFilter, depTable, arrTable) ==
    LET tables == forEachTrip(trips, 1,
                      [departures |-> depTable, arrivals |-> arrTable,
                       threw |-> FALSE])
    IN  /\ filteredStations' = computeStationTraffic(stations, timeFilter,
                                   tables.departures, tables.arrivals)
        /\ departuresByMinute' = tables.departures
        /\ arrivalsByMinute' = tables.arrivals
        /\ radiusRange' = IF timeFilter = NoFilter THEN <<0, 25>> ELSE <<3, 50>>
        /\ computed' = TRUE

\* updateScatterPlot(timeFilter), run on the bucket tables depTable, arrTable
updateScatterPlot(timeFilter, depTable, arrTable) ==
    /\ filteredStations' = computeStationTraffic(stations, timeFilter, depTable, arrTable)
    /\ departuresByMinute' = tableAfterFilter(depTable, timeFilter)
    /\ arrivalsByMinute' = tableAfterFilter(arrTable, timeFilter)
    /\ radiusRange' = IF timeFilter = NoFilter THEN <<0, 25>> ELSE <<3, 50>>
    /\ computed' = TRUE

\* updateTimeDisplay(), with timeFilter = Number(timeSlider.value)
updateTimeDisplay(timeFilter, depTable, arrTable) ==
    /\ IF timeFilter = NoFilter
       THEN selectedTime' = <<>> /\ anyTimeLabel' = "block"
       ELSE selectedTime' = formatTime(timeFilter) /\ anyTimeLabel' = "none"
    /\ updateScatterPlot(timeFilter, depTable, arrTable)

\* map.on('load', ...): the lanes are added and the stations are requested
MapLoad ==
    /\ pc = "idle"
    /\ pc' = "loadingStations"
    /\ UNCHANGED <<stations, trips, departuresByMinute, arrivalsByMinute,
                   allTripsStations, filteredStations, radiusRange, sliderValue,
                   selectedTime, anyTimeLabel, listenerRegistered, consoleError,
                   computed, ref>>

\* d3.json(...).then: the stations arrive and the trips are requested
StationsThen(jsonData) ==
    /\ pc = "loadingStations"
    /\ stations' = jsonData
    /\ pc' = "loadingTrips"
    /\ UNCHANGED <<trips, departuresByMinute, arrivalsByMinute,
                   allTripsStations, filteredStations, radiusRange, sliderValue,
                   selectedTime, anyTimeLabel, listenerRegistered, consoleError,
                   computed, ref>>

\* the catch handler, reached by a rejected request
catch(err) ==
    /\ pc' = "failed"
    /\ consoleError' = err

\* d3.json(...) rejects
StationsFail ==
    /\ pc = "loadingStations"
    /\ catch("LoadError")
    /\ UNCHANGED <<stations, trips, departuresByMinute, arrivalsByMinute,
                   allTripsStations, filteredStations, radiusRange, sliderValue,
                   selectedTime, anyTimeLabel, listenerRegistered, computed, ref>>

\* the trips .then() handler, whole: the bucketing loop, the unfiltered
\* traffic, the slider wiring and the first updateTimeDisplay(); a throw in
\* the loop leaves what the loop had pushed and goes to the catch handler
tripsHandler(tripList) ==
    LET tables == forEachTrip(tripList, 1,
                      [departures |-> departuresByMinute,
                       arrivals   |-> arrivalsByMinute,
                       threw      |-> FALSE])
    IN  /\ trips' = tripList
        /\ IF tables.threw
           THEN /\ departuresByMinute' = tables.departures
                /\ arrivalsByMinute' = tables.arrivals
                /\ catch("TypeError")
                /\ UNCHANGED <<allTripsStations, filteredStations, radiusRange,
                               selectedTime, anyTimeLabel, listenerRegistered,
                               computed>>
           ELSE /\ allTripsStations' =
                       computeStationTraffic(stations, NoFilter,
                                             tables.departures, tables.arrivals)
                /\ listenerRegistered' = TRUE
                /\ updateTimeDisplay(sliderValue,
                       tableAfterFilter(tables.departures, NoFilter),
                       tableAfterFilter(tables.arrivals, NoFilter))
                /\ pc' = "ready"
                /\ UNCHANGED consoleError

\* a rejected trips request that is reported and then handled as an empty
\* dataset (the catch placed before the trips handler)
TripsFail_goesOn ==
    /\ pc = "loadingTrips"
    /\ consoleError' = "LoadError"
    /\ pc' = "ready"
    /\ trips' = <<>>
    /\ allTripsStations' = computeStationTraffic(stations, NoFilter,
                               departuresByMinute, arrivalsByMinute)
    /\ listenerRegistered' = TRUE
    /\ updateTimeDisplay(sliderValue, departuresByMinute, arrivalsByMinute)
    /\ UNCHANGED <<stations, sliderValue, ref>>

\* d3.csv(...).then: the trips arrive, converted row by row
TripsThen(csv) ==
    /\ pc = "loadingTrips"
    /\ tripsHandler(parseCsv(csv))
    /\ UNCHANGED <<stations, sliderValue, ref>>

\* d3.csv(...) rejects
TripsFail ==
    /\ pc = "loadingTrips"
    /\ catch("LoadError")
    /\ UNCHANGED <<stations, trips, departuresByMinute, arrivalsByMinute,
                   allTripsStations, filteredStations, radiusRange, sliderValue,
                   selectedTime, anyTimeLabel, listenerRegistered, computed, ref>>

\* the user sets the slider to v; the 'input' listener, once registered, runs
\* updateTimeDisplay
sliderInput(v) ==
    /\ sliderValue' = v
    /\ IF listenerRegistered
       THEN updateTimeDisplay(v, departuresByMinute, arrivalsByMinute)
       ELSE UNCHANGED <<departuresByMinute, arrivalsByMinute, filteredStations,
                        radiusRange, selectedTime, anyTimeLabel, computed>>
    /\ UNCHANGED <<pc, stations, trips, allTripsStations, listenerRegistered,
                   consoleError>>

\* history of the slider-driven calls: the first call's filter and output,
\* whether another filter came after it, and whether the first came again
refAfter(v) ==
    IF ~listenerRegistered THEN ref
    ELSE IF ~ref.set
         THEN [set |-> TRUE, filter |-> v,
               output |-> computeStationTraffic(stations, v, departuresByMinute,
                                                arrivalsByMinute),
               between |-> FALSE, again |-> FALSE]
         ELSE [ref EXCEPT !.between = @ \/ v # ref.filter,
                          !.again = @ \/ (v = ref.filter /\ ref.between)]

SliderInput(v) ==
    /\ sliderInput(v)
    /\ ref' = refAfter(v)

\* the same handler, with the history left alone
SliderInputAny(v) ==
    /\ sliderInput(v)
    /\ UNCHANGED ref

-----------------------------------------------------------------------------
(* Specifications *)

Next ==
    \/ MapLoad
    \/ \E jsonData \in StationLists : StationsThen(jsonData)
    \/ StationsFail
    \/ \E csv \in CsvFiles : TripsThen(csv)
    \/ TripsFail
    \/ \E v \in SliderValues : SliderInput(v)

Spec == Init /\ [][Next]_vars

\* one dataset; the slider is moved a minute at a time through every position
NextWindow ==
    \/ MapLoad
    \/ StationsThen(ScenarioStations)
    \/ TripsThen(WindowCsv)
    \/ \E v \in SliderSteps(sliderValue) : SliderInputAny(v)

SpecWindow == Init /\ [][NextWindow]_vars

-----------------------------------------------------------------------------
(* Vocabulary of the properties *)

Range(s) == {s[i] : i \in 1..Len(s)}

RECURSIVE SumSeq(_)
SumSeq(ns) == IF ns = <<>> THEN 0 ELSE Head(ns) + SumSeq(Tail(ns))

SumDepartures(records) == SumSeq([k \in 1..Len(records) |-> records[k].departures])

SumArrivals(records) == SumSeq([k \in 1..Len(records) |-> records[k].arrivals])

startMinute(trip) == minutesSinceMidnight(trip.started_at)

endMinute(trip) == minutesSinceMidnight(trip.ended_at)

ShortNames == {stations[k].short_name : k \in 1..Len(stations)}

DistinctShortNames == Cardinality(ShortNames) = Len(stations)

\* the trips held by the slots of a bucket table
Bucketed(tripsByMinute) == Range(concatAll(SelectSeq(tripsByMinute, holdsTrips)))

\* the trips held by the slots of the given minutes
BucketedAt(tripsByMinute, minutes) == UNION {Range(tripsByMinute[i + 1]) : i \in minutes}

\* minute i lies in the circular window [m - 60, m + 60)
InWindow(i, m) == (i - m + WindowRadius) % MinutesPerDay < 2 * WindowRadius

\* a table whose slot i holds the number i and nothing else
IndexTable == [i \in 1..MinutesPerDay |-> <<i - 1>>]

Ready == pc = "ready"

-----------------------------------------------------------------------------
(* C1 *)

\* C1 as stated: once the trips are bucketed, the departures of the unfiltered
\* records sum to the number of loaded trips, and so do the arrivals.
C1_SumsEqualTripCount ==
    Ready => /\ SumDepartures(allTripsStations) = Len(trips)
             /\ SumArrivals(allTripsStations) = Len(trips)

\* C1, amended: with distinct station short_names, the departures of
\* computeStationTraffic(stations, -1) sum to the number of bucketed trips
\* whose start_station_id is a listed short_name, and the arrivals to the
\* number of bucketed trips whose end_station_id is one; a trip of an unlisted
\* station is counted in no record.  The unfiltered records computed at load
\* are these sums over the loaded trips.
C1_SumsEqualListedTrips ==
    DistinctShortNames =>
        LET out == computeStationTraffic(stations, NoFilter,
                                         departuresByMinute, arrivalsByMinute)
        IN  /\ SumDepartures(out) =
                   Cardinality({t \in Bucketed(departuresByMinute) :
                                    t.start_station_id \in ShortNames})
            /\ SumArrivals(out) =
                   Cardinality({t \in Bucketed(arrivalsByMinute) :
                                    t.end_station_id \in ShortNames})
            /\ Ready =>
                /\ SumDepartures(allTripsStations) =
                       Cardinality({i \in 1..Len(trips) :
                                        trips[i].start_station_id \in ShortNames})
                /\ SumArrivals(allTripsStations) =
                       Cardinality({i \in 1..Len(trips) :
                                        trips[i].end_station_id \in ShortNames})

\* two trips loaded from listed stations, one of them ending at an unlisted one
C1_Witness ==
    /\ Ready
    /\ stations = ScenarioStations
    /\ Len(trips) = 2
    /\ SumDepartures(allTripsStations) = 2
    /\ SumArrivals(allTripsStations) = 1

-----------------------------------------------------------------------------
(* C2 *)

\* C2: with the slider at minute m, every station's record counts as departures
\* the loaded trips that start at the station at a minute i with
\* (i - m + 60) mod 1440 < 120, and as arrivals the trips that end at it at such
\* a minute, each trip once.
C2_WindowCounts ==
    (Ready /\ sliderValue # NoFilter) =>
        /\ Len(filteredStations) = Len(stations)
        /\ \A k \in 1..Len(stations) :
            /\ filteredStations[k].departures =
                   Cardinality({i \in 1..Len(trips) :
                       /\ trips[i].start_station_id = stations[k].short_name
                       /\ InWindow(startMinute(trips[i]), sliderValue)})
            /\ filteredStations[k].arrivals =
                   Cardinality({i \in 1..Len(trips) :
                       /\ trips[i].end_station_id = stations[k].short_name
                       /\ InWindow(endMinute(trips[i]), sliderValue)})

\* the trip that starts at minute 10 at station B is counted at m = 1430
C2_Witness ==
    /\ Ready
    /\ sliderValue = 1430
    /\ \E i \in 1..Len(trips) :
           startMinute(trips[i]) = 10 /\ trips[i].start_station_id = "B"
    /\ filteredStations[2].departures = 1

-----------------------------------------------------------------------------
(* C3 *)

\* C3 as stated: filterByMinute(buckets, 0) returns the trips of the buckets
\* 1380..1439 and 0..59, and filterByMinute(buckets, 1439) those of the buckets
\* 1379..1439 and 0..59.
C3_BoundaryAsStated ==
    Ready =>
        \A table \in {departuresByMinute, arrivalsByMinute} :
            /\ BucketedAt(table, (1380..1439) \cup (0..59))
                   \subseteq Range(filterByMinute(table, 0))
            /\ BucketedAt(table, (1379..1439) \cup (0..59))
                   \subseteq Range(filterByMinute(table, 1439))

\* C3, amended: filterByMinute(buckets, 0) returns exactly the trips of the
\* buckets 1380..1439 and 0..59, and filterByMinute(buckets, 1439) exactly those
\* of the buckets 1379..1439 and 0..58: bucket 59 is left out.
C3_Boundary ==
    Ready =>
        \A table \in {departuresByMinute, arrivalsByMinute} :
            /\ Range(filterByMinute(table, 0))
                   = BucketedAt(table, (1380..1439) \cup (0..59))
            /\ Range(filterByMinute(table, 1439))
                   = BucketedAt(table, (1379..1439) \cup (0..58))

\* the slider at 1439 with a trip in arrival bucket 59 and one in bucket 0:
\* the first is left out of the arrivals, the second is counted
C3_Witness ==
    /\ Ready
    /\ sliderValue = 1439
    /\ stations = ScenarioStations
    /\ \E i \in 1..Len(trips) :
           endMinute(trips[i]) = 59 /\ trips[i].end_station_id = "C"
    /\ \E i \in 1..Len(trips) :
           startMinute(trips[i]) = 1439 /\ trips[i].start_station_id = "A"
    /\ filteredStations[3].arrivals = 0
    /\ filteredStations[1].departures = 1

-----------------------------------------------------------------------------
(* C4 *)

\* C4: for the slider at any minute m, filterByMinute returns the contents of
\* exactly 120 distinct buckets, each once.
C4_WindowSize ==
    sliderValue # NoFilter =>
        LET indices == filterByMinute(IndexTable, sliderValue)
        IN  /\ Len(indices) = 2 * WindowRadius
            /\ Cardinality(Range(indices)) = 2 * WindowRadius

\* a window that wraps across midnight has been queried
C4_Witness ==
    /\ Ready
    /\ sliderValue = 1400
    /\ filteredStations[1].departures = 1

-----------------------------------------------------------------------------
(* C5 *)

\* C5: once the trips handler has run, whatever the timestamps, the load has
\* not been aborted, the unfiltered traffic is computed, the slider is wired,
\* and every trip with valid minutes is in its two buckets.
C5_SkipsBadTrip ==
    (pc \in {"ready", "failed"} /\ consoleError # "LoadError") =>
        /\ Ready
        /\ computed
        /\ listenerRegistered
        /\ \A i \in 1..Len(trips) :
               (startMinute(trips[i]) # NaN /\ endMinute(trips[i]) # NaN) =>
                   /\ trips[i] \in Range(departuresByMinute[startMinute(trips[i]) + 1])
                   /\ trips[i] \in Range(arrivalsByMinute[endMinute(trips[i]) + 1])

-----------------------------------------------------------------------------
(* C6 *)

\* records has one record per station, in the order of the stations, each the
\* station with its counts added and totalTraffic their sum
OneRecordPerStation(records) ==
    /\ Len(records) = Len(stations)
    /\ \A k \in 1..Len(stations) :
        /\ \A f \in DOMAIN stations[k] : records[k][f] = stations[k][f]
        /\ DOMAIN records[k] =
               DOMAIN stations[k] \cup {"departures", "arrivals", "totalTraffic"}
        /\ records[k].departures \in Nat
        /\ records[k].arrivals \in Nat
        /\ records[k].totalTraffic = records[k].departures + records[k].arrivals

\* C6: what computeStationTraffic returned, for no filter and for the slider's
\* filter, has exactly one record per station, in input order, stations without
\* traffic included with zero counts, and totalTraffic = departures + arrivals.
C6_OneRecordPerStation ==
    Ready =>
        /\ OneRecordPerStation(allTripsStations)
        /\ OneRecordPerStation(filteredStations)
        /\ \A k \in 1..Len(stations) :
               (\A i \in 1..Len(trips) :
                    /\ trips[i].start_station_id # stations[k].short_name
                    /\ trips[i].end_station_id # stations[k].short_name)
               => /\ filteredStations[k].totalTraffic = 0
                  /\ filteredStations[k].departures = 0
                  /\ filteredStations[k].arrivals = 0

\* a filtered result with a busy station and an idle one
C6_Witness ==
    /\ Ready
    /\ sliderValue = 700
    /\ stations = ScenarioStations
    /\ filteredStations[1].totalTraffic = 1
    /\ filteredStations[3].totalTraffic = 0

-----------------------------------------------------------------------------
(* C7 *)

\* C7: whenever the slider is back at the filter of the first slider-driven
\* call, whatever filters were applied since, the records are those of that
\* first call.
C7_SameFilterSameOutput ==
    (Ready /\ ref.set /\ sliderValue = ref.filter) => filteredStations = ref.output

\* the first filter applied a second time, another filter in between, with
\* traffic in the window
C7_Witness ==
    /\ Ready
    /\ ref.set
    /\ ref.again
    /\ ref.filter = 700
    /\ sliderValue = 700
    /\ SumDepartures(filteredStations) > 0

-----------------------------------------------------------------------------
(* C8 *)

\* the minutes whose slot of the table holds something
FilledMinutes(tripsByMinute) ==
    {m \in 0 .. Len(tripsByMinute) - 1 : tripsByMinute[m + 1] # <<>>}

\* the places <<minute, position>> at which the table holds the trip
PlacesOf(tripsByMinute, filled, trip) ==
    {<<m, j>> \in filled \X (1..Len(trips)) :
        j <= Len(tripsByMinute[m + 1]) /\ tripsByMinute[m + 1][j] = trip}

\* C8: once the bucketing loop has completed, every loaded trip is in exactly
\* one departure slot, that of its start minute, and in exactly one arrival
\* slot, that of its end minute, and no slot holds anything else.
C8_OneSlotEach ==
    Ready =>
        LET depFilled == FilledMinutes(departuresByMinute)
            arrFilled == FilledMinutes(arrivalsByMinute)
        IN  /\ \A i \in 1..Len(trips) :
                /\ \E j \in 1..Len(trips) :
                       PlacesOf(departuresByMinute, depFilled, trips[i])
                           = {<<startMinute(trips[i]), j>>}
                /\ \E j \in 1..Len(trips) :
                       PlacesOf(arrivalsByMinute, arrFilled, trips[i])
                           = {<<endMinute(trips[i]), j>>}
            /\ \A m \in depFilled :
                   /\ Len(departuresByMinute[m + 1]) <= Len(trips)
                   /\ \A t \in Range(departuresByMinute[m + 1]) :
                          t \in Range(trips) /\ startMinute(t) = m
            /\ \A m \in arrFilled :
                   /\ Len(arrivalsByMinute[m + 1]) <= Len(trips)
                   /\ \A t \in Range(arrivalsByMinute[m + 1]) :
                          t \in Range(trips) /\ endMinute(t) = m

\* two trips bucketed, at different minutes
C8_Witness ==
    /\ Ready
    /\ Len(trips) = 2
    /\ startMinute(trips[1]) # startMinute(trips[2])
    /\ startMinute(trips[1]) # endMinute(trips[1])

-----------------------------------------------------------------------------
(* C9 *)

\* C9: the bucket tables change only in the step of the trips handler, and
\* once the session is ready no step changes the tables or the stations.
C9_BucketsWrittenOnce ==
    [][ /\ (<<departuresByMinute, arrivalsByMinute>>'
               # <<departuresByMinute, arrivalsByMinute>>)
           => (pc = "loadingTrips" /\ pc' \in {"ready", "failed"})
        /\ Ready => UNCHANGED <<departuresByMinute, arrivalsByMinute, stations>>
      ]_vars

\* the slider has been moved more than once over filled tables
C9_Witness ==
    /\ Ready
    /\ ref.set
    /\ ref.between
    /\ Len(trips) = 2
    /\ Cardinality(Bucketed(departuresByMinute)) = 2
    /\ stations = ScenarioStations

-----------------------------------------------------------------------------
(* C10 *)

\* C10: in every state after a failed stations or trips request, the failure
\* has been reported by the catch handler and nothing else has happened: the
\* tables are empty, computeStationTraffic has never run and the slider has no
\* listener.
C10_NoCoreAfterLoadFailure ==
    consoleError = "LoadError" =>
        /\ pc = "failed"
        /\ departuresByMinute = EmptyTable
        /\ arrivalsByMinute = EmptyTable
        /\ ~computed
        /\ ~listenerRegistered
        /\ allTripsStations = <<>>
        /\ filteredStations = <<>>

\* the trips request failed after the stations arrived, and the slider has
\* been moved
C10_Witness ==
    /\ consoleError = "LoadError"
    /\ stations = ScenarioStations
    /\ sliderValue = 700

====
